---- MODULE Spec2Model ----
(***************************************************************************)
(* Map overlays of the tempo-air-quality frontend: the air-quality cluster *)
(* overlay (AirQualityClusterLayer), the marker-based fire overlay         *)
(* (FireDataLayer.tsx) and the symbol-layer fire overlay, mounted by       *)
(* MapBase after the map's load event.                                     *)
(*                                                                         *)
(* Units: longitudes and latitudes are integers in thousandths of a        *)
(* degree, zooms are integers in hundredths of a zoom level, so that the   *)
(* gate thresholds 0.005 and 0.05 are both 5.                              *)
(***************************************************************************)
EXTENDS Integers, Sequences, FiniteSets, Bags, TLC

\* ------------------------------------------------------------------ bounds
\* The map can be panned east by 0..MaxPan steps of 0.003 degrees.
MaxPan == 2
\* At most MaxOnce load listeners of the symbol overlay are kept registered.
MaxOnce == 2
\* A backend response carries at most MaxRecords AirNow records.
MaxRecords == 3
\* The map is clicked for weather at most MaxClicks times.
MaxClicks == 2
\* A location is selected on the page at most MaxSelections times.
MaxSelections == 2
\* A panel's refresh button is pressed at most MaxRefresh times.
MaxRefresh == 1

\* ------------------------------------------------------- program constants
ZoomEps == 5
BoundsEps == 5
ClusterMaxZoom == 14
ClusterMinZoom == 0
MinPoints == 2
RadiusPx == 50
FlyToCap == 1400
StationFlyZoom == 1200
FireFlyZoom == 1200

\* --------------------------------------------------------------- the map
\* Zoom values the camera takes (13.00, 13.98, 14.03).
Zooms == {1300, 1398, 1403}

\* Half of the viewport's extent in thousandths of a degree at a zoom: a
\* 1000 px wide canvas shows 360 * 1000 / (512 * 2^zoom) degrees.
HalfSpan(zoom) ==
  CASE zoom = 1300 -> 43
    [] zoom = 1398 -> 22
    [] zoom = 1403 -> 21
    [] zoom = 1150 -> 121
    [] zoom = 1500 -> 10

\* map.getZoom() and map.getBounds() of a camera centred at (cx, 39.000).
Viewport(zoom, cx) ==
  [zoom |-> zoom,
   west |-> cx - HalfSpan(zoom), south |-> 39000 - HalfSpan(zoom),
   east |-> cx + HalfSpan(zoom), north |-> 39000 + HalfSpan(zoom)]

Viewports == {Viewport(z, -98000 + 3 * k) : z \in Zooms, k \in 0..MaxPan}

\* A camera further out, at zoom 11.5.
WideViewport == Viewport(1150, -98000)

\* A camera further in, at zoom 15, beyond the index's maxZoom.
DeepViewport == Viewport(1500, -98009)

AllViewports == Viewports \cup {WideViewport, DeepViewport}

\* map.getClusters is also asked for the whole world.
WorldBBox == <<-180000, -90000, 180000, 90000>>

\* ------------------------------------------------------------ the datasets
\* A coordinate that is not a number is written NaN; every comparison with
\* it is false.
NaN == 999999999

StationsA ==
  << [city |-> "A", state |-> "KS", lng |-> -98010, lat |-> 39000, values |-> <<40, 55>>],
     [city |-> "B", state |-> "KS", lng |-> -98007, lat |-> 39000, values |-> <<10>>],
     [city |-> "C", state |-> "KS", lng |-> -97977, lat |-> 39000, values |-> <<30, 20>>] >>

Datasets == {StationsA, << >>}

\* Three stations within the cluster radius, with maximum values 10, 20, 30.
StationsTriple ==
  << [city |-> "P", state |-> "KS", lng |-> -98010, lat |-> 39000, values |-> <<10>>],
     [city |-> "Q", state |-> "KS", lng |-> -98009, lat |-> 39000, values |-> <<20, 5>>],
     [city |-> "R", state |-> "KS", lng |-> -98008, lat |-> 39000, values |-> <<30>>] >>

\* A valid US station, a station with longitude 200, a station whose latitude
\* is not a number, and a valid station outside the US box.
StationsMixed ==
  << [city |-> "E", state |-> "KS", lng |-> -98005, lat |-> 39000, values |-> <<10>>],
     [city |-> "F", state |-> "KS", lng |-> 200000, lat |-> 39000, values |-> <<70>>],
     [city |-> "G", state |-> "KS", lng |-> -98000, lat |-> NaN, values |-> <<80>>],
     [city |-> "H", state |-> "EU", lng |-> 10000, lat |-> 50000, values |-> <<25>>] >>

\* One station east of the first viewports.
StationsEdge ==
  << [city |-> "D", state |-> "KS", lng |-> -97955, lat |-> 39000, values |-> <<60>>] >>

\* ------------------------------------------------------------ helpers
RECURSIVE SeqMax(_)
SeqMax(s) ==
  IF Len(s) = 1 THEN s[1]
  ELSE LET m == SeqMax(Tail(s)) IN IF s[1] > m THEN s[1] ELSE m

RECURSIVE SeqSum(_)
SeqSum(s) == IF s = << >> THEN 0 ELSE s[1] + SeqSum(Tail(s))

RECURSIVE SetSum(_, _)
SetSum(S, f) ==
  IF S = {} THEN 0
  ELSE LET x == CHOOSE y \in S : TRUE IN f[x] + SetSum(S \ {x}, f)

SetMin(S) == CHOOSE x \in S : \A y \in S : x <= y

Abs(x) == IF x < 0 THEN -x ELSE x

RECURSIVE Pow2(_)
Pow2(n) == IF n = 0 THEN 1 ELSE 2 * Pow2(n - 1)

RECURSIVE BagOfSeq(_)
BagOfSeq(s) ==
  IF s = << >> THEN EmptyBag ELSE SetToBag({s[1]}) (+) BagOfSeq(Tail(s))

\* ------------------------------------------------------------------ state
VARIABLES
  mapLoaded,        \* the map has fired its load event
  mapInstance,      \* MapBase: the map has been handed to the overlays
  styleLoaded,      \* map.isStyleLoaded()
  viewport,         \* map.getZoom() and map.getBounds()
  timers,           \* ids of the pending setTimeout timers
  showAirQuality,   \* MapBase: the visible prop of the cluster overlay
  showFireData,     \* MapBase: the visible prop of the fire overlay
  \* the cluster overlay
  mapMarkers,       \* bag of the cluster overlay's markers that are on the map
  handlers,         \* number of move/zoom/moveend/zoomend handler sets registered
  aqFetch,          \* "none", "pending", "done": the stations fetch
  stations, loading, error,
  clusterRef,       \* << >> (null) or <<index>>
  markersRef,       \* sequence of the markers the overlay tracks
  hasCleanup,       \* the update effect's last run returned a cleanup
  lastZoom,         \* << >> (undefined) or <<zoom>>
  lastBounds,       \* << >> (undefined) or <<west, south, east, north>>
  updateTimeout,    \* 0 (undefined) or the id of the timer last scheduled
  renderError,      \* an exception has escaped updateClusters
  invalidLogged,    \* stations the index effect has logged as invalid
  clicked,          \* << >> or <<the argument of the last click callback>>
  flyTo,            \* << >> or <<the last map.flyTo request>>
  leafFault,        \* what getLeaves does: "none" (resolves), "throws", "empty"
  \* the marker-based fire overlay
  fmFetch,          \* "none", "pending", "done": its fire fetch
  fireData,         \* its fireData state
  fmLoading, fmError, \* its loading and error state
  fmMarkersRef,     \* sequence of the fire markers it tracks
  fireMapMarkers,   \* bag of its fire markers that are on the map
  fmZoomHandlers,   \* number of its zoom handlers registered
  fmHasCleanup,     \* its marker effect's last run returned a cleanup
  \* the symbol-layer fire overlay
  symFetch,         \* "none", "pending", "done": its fire fetch
  symData,          \* its fireData state
  symSource,        \* << >> or <<data>>: the map's fires-source
  symLayer,         \* "none", "visible" or "hidden": the map's fires-point layer
  symOnce,          \* number of its once("load") listeners registered, up to MaxOnce
  symClick,         \* number of its layer click handlers registered, up to MaxOnce + 1
  symHasCleanup,    \* its layer effect's last run returned a cleanup
  \* history
  lastPrims,        \* the result of the most recent index query
  step,             \* what the last action did
  chg,              \* recomputes issued by events since the last viewport change
  burst             \* moveend/zoomend events handled in a row, up to 2

VARIABLES
  \* the services
  rawData,          \* << >> or the records of the last air-quality response
  apiResponse,      \* << >> or <<what getAllStations last resolved with>>
  svcOutcome,       \* << >> or <<the last service call: service, response, outcome>>
  \* MapBase
  unmounted         \* MapBase and its overlays have been unmounted

VARIABLES
  \* MapBase: the weather click handler
  weatherRefs,      \* the weather layers whose show...Ref.current is true
  clickHandlers,    \* the click handlers that passed the gate, in click order
  popups,           \* the weather popups that are on the map
  popupRef,         \* 0 or the popup held in popupRef.current
  \* Home
  selectedLocation, \* << >> or <<the location object last set>>
  \* the location panels
  panels,           \* per panel: data, loading, error and what its effect saw
  panelFetches      \* the panels' fetches that are in flight

mapVars == <<mapLoaded, mapInstance, styleLoaded, viewport>>
aqVars == <<timers, mapMarkers, handlers, markersRef, hasCleanup, lastZoom,
            lastBounds, updateTimeout, lastPrims, renderError>>
aqData == <<aqFetch, stations, loading, error, clusterRef, invalidLogged>>
svcVars == <<rawData, apiResponse, svcOutcome>>
lifeVars == <<unmounted>>
weatherVars == <<weatherRefs, clickHandlers, popups, popupRef>>
panelVars == <<panels, panelFetches>>
pageVars == <<weatherVars, selectedLocation, panelVars>>
extVars == <<svcVars, lifeVars, pageVars>>
uiVars == <<clicked, flyTo, leafFault, extVars>>
fmVars == <<fmMarkersRef, fireMapMarkers, fmZoomHandlers, fmHasCleanup>>
fmData == <<fmFetch, fireData, fmLoading, fmError>>
symVars == <<symSource, symLayer, symOnce, symClick, symHasCleanup>>
symFetchVars == <<symFetch, symData>>
hist == <<step, chg, burst>>

vars == <<mapVars, showAirQuality, showFireData, aqVars, aqData, fmVars, fmData,
          symVars, symFetchVars, hist, uiVars>>

\* ------------------------------------------------ index effect (supercluster)
Geq(a, b) == a # NaN /\ b # NaN /\ a >= b
Leq(a, b) == a # NaN /\ b # NaN /\ a <= b
Lt(a, b) == a # NaN /\ b # NaN /\ a < b
Gt(a, b) == a # NaN /\ b # NaN /\ a > b

\* A filter that keeps every station whose coordinates are valid.
IsInRange(station) ==
  /\ Geq(station.lng, -180000) /\ Leq(station.lng, 180000)
  /\ Geq(station.lat, -90000) /\ Leq(station.lat, 90000)

\* The US filter of the index effect.
IsInUS(station) ==
  /\ Geq(station.lng, -180000) /\ Leq(station.lng, -65000)
  /\ Geq(station.lat, 18000) /\ Leq(station.lat, 72000)

\* The validation of the index effect's map stage, which logs.
InvalidCoordinates(station) ==
  \/ Lt(station.lng, -180000) \/ Gt(station.lng, 180000)
  \/ Lt(station.lat, -90000) \/ Gt(station.lat, 90000)

\* The stations console.error is called for while the features are built:
\* those that passed the filter and fail the validation.
IndexLogs(sts) == SelectSeq(SelectSeq(sts, IsInUS), InvalidCoordinates)

\* stations.filter(isInUS).map(station, index => feature)
Features(sts) ==
  LET kept == SelectSeq(sts, IsInUS)
  IN [i \in 1..Len(kept) |->
        [station |-> kept[i], index |-> i - 1, maxAQI |-> SeqMax(kept[i].values),
         lng |-> kept[i].lng, lat |-> kept[i].lat]]

\* Cluster radius in thousandths of a degree at an integer zoom: RadiusPx
\* pixels of a 512 px world tile spanning 360 degrees.
Radius(z) == (360000 * RadiusPx) \div (512 * Pow2(z))

\* A neighbourhood of half the radius.
NearHalf(f, g, z) ==
  /\ 2 * Abs(f.lng - g.lng) <= Radius(z) /\ 2 * Abs(f.lat - g.lat) <= Radius(z)
  /\ 4 * ((f.lng - g.lng) * (f.lng - g.lng) + (f.lat - g.lat) * (f.lat - g.lat))
       <= Radius(z) * Radius(z)

Near(f, g, z) ==
  /\ Abs(f.lng - g.lng) <= Radius(z) /\ Abs(f.lat - g.lat) <= Radius(z)
  /\ (f.lng - g.lng) * (f.lng - g.lng) + (f.lat - g.lat) * (f.lat - g.lat)
       <= Radius(z) * Radius(z)

SinglePrim(index, i) ==
  [cluster |-> FALSE, ids |-> {i}, lng |-> index[i].lng, lat |-> index[i].lat,
   point_count |-> 0]

ClusterPrim(index, ids) ==
  [cluster |-> TRUE, ids |-> ids,
   lng |-> SetSum(ids, [i \in ids |-> index[i].lng]) \div Cardinality(ids),
   lat |-> SetSum(ids, [i \in ids |-> index[i].lat]) \div Cardinality(ids),
   point_count |-> Cardinality(ids)]

\* Greedy clustering of the features not yet assigned, in index order.
RECURSIVE Greedy(_, _, _)
Greedy(index, rest, z) ==
  IF rest = {} THEN << >>
  ELSE LET p == SetMin(rest)
           nb == {q \in rest : Near(index[p], index[q], z)}
       IN IF z <= ClusterMaxZoom /\ Cardinality(nb) >= MinPoints
          THEN <<ClusterPrim(index, nb)>> \o Greedy(index, rest \ nb, z)
          ELSE <<SinglePrim(index, p)>> \o Greedy(index, rest \ {p}, z)

InBBox(p, bbox) ==
  /\ bbox[1] <= p.lng /\ p.lng <= bbox[3]
  /\ bbox[2] <= p.lat /\ p.lat <= bbox[4]

\* clusterRef.current.getClusters(bbox, zoom): zoom is clamped to
\* [minZoom, maxZoom + 1] and the level's clusters inside bbox are returned.
GetClusters(index, bbox, zoom) ==
  LET z == IF zoom < ClusterMinZoom THEN ClusterMinZoom
           ELSE IF zoom > ClusterMaxZoom + 1 THEN ClusterMaxZoom + 1 ELSE zoom
  IN SelectSeq(Greedy(index, DOMAIN index, z), LAMBDA p : InBBox(p, bbox))

\* clusterRef.current.getLeaves(cluster_id, Infinity)
GetLeaves(index, prim) ==
  LET ids == prim.ids
      RECURSIVE Asc(_)
      Asc(S) == IF S = {} THEN << >>
                ELSE <<index[SetMin(S)]>> \o Asc(S \ {SetMin(S)})
  IN IF leafFault = "empty" THEN << >> ELSE Asc(ids)

\* A calculateClusterAQI that rounds the mean down.
CalculateClusterAQIFloor(index, prim) ==
  LET leaves == GetLeaves(index, prim)
      values == [i \in 1..Len(leaves) |-> leaves[i].maxAQI]
  IN IF Len(values) = 0 THEN [avgAQI |-> 0, maxAQI |-> 0]
     ELSE [avgAQI |-> SeqSum(values) \div Len(values), maxAQI |-> SeqMax(values)]

\* calculateClusterAQI: mean rounded with Math.round, and maximum.
CalculateClusterAQI(index, prim) ==
  LET leaves == GetLeaves(index, prim)
      values == [i \in 1..Len(leaves) |-> leaves[i].maxAQI]
  IN IF Len(values) = 0 THEN [avgAQI |-> 0, maxAQI |-> 0]
     ELSE [avgAQI |-> (2 * SeqSum(values) + Len(values)) \div (2 * Len(values)),
           maxAQI |-> SeqMax(values)]

\* createClusterMarker / createStationMarker: the marker made for a primitive.
CreateClusterMarker(index, prim) ==
  [kind |-> "cluster", lng |-> prim.lng, lat |-> prim.lat, ids |-> prim.ids,
   pointCount |-> prim.point_count,
   avgAQI |-> CalculateClusterAQI(index, prim).avgAQI,
   maxAQI |-> CalculateClusterAQI(index, prim).maxAQI]

CreateStationMarker(index, prim) ==
  LET f == index[CHOOSE i \in prim.ids : TRUE]
  IN [kind |-> "station", lng |-> prim.lng, lat |-> prim.lat, ids |-> prim.ids,
      pointCount |-> 1, avgAQI |-> SeqMax(f.station.values),
      maxAQI |-> SeqMax(f.station.values), station |-> f.station]

MarkerFor(index, prim) ==
  IF prim.cluster THEN CreateClusterMarker(index, prim)
  ELSE CreateStationMarker(index, prim)


\* The cluster overlay's mutable state as one value, threaded through the
\* effect and handler bodies below.
Overlay ==
  [lastZoom |-> lastZoom, lastBounds |-> lastBounds, markersRef |-> markersRef,
   mapMarkers |-> mapMarkers, timers |-> timers, updateTimeout |-> updateTimeout,
   handlers |-> handlers, hasCleanup |-> hasCleanup, prims |-> lastPrims,
   rec |-> 0, threw |-> renderError]

BBox(vp) == <<vp.west, vp.south, vp.east, vp.north>>

\* ------------------------------------------------------- updateClusters
\* A gate with inclusive thresholds (>= in place of >).
UpdateNeededInclusive(c, vp) ==
  \/ c.lastBounds = << >>
  \/ \E i \in 1..4 : Abs(BBox(vp)[i] - c.lastBounds[i]) >= BoundsEps
  \/ Abs(vp.zoom - (IF c.lastZoom = << >> THEN 0 ELSE c.lastZoom[1])) >= ZoomEps

\* boundsChanged || zoomChanged
UpdateNeeded(c, vp) ==
  LET bounds == BBox(vp)
      boundsChanged ==
        \/ c.lastBounds = << >>
        \/ \E i \in 1..4 : Abs(bounds[i] - c.lastBounds[i]) > BoundsEps
      zoomChanged ==
        Abs(vp.zoom - (IF c.lastZoom = << >> THEN 0 ELSE c.lastZoom[1])) > ZoomEps
  IN boundsChanged \/ zoomChanged

\* A query zoom that rounds to the nearest integer instead of flooring.
QueryZoomRounded(zoom) == (zoom + 50) \div 100

\* Math.floor(Math.floor(zoom * 2) / 2), the zoom handed to getClusters.
QueryZoom(zoom) == (((zoom * 2) \div 100) * 50) \div 100

\* A clear that forgets the tracked markers without removing them.
ClearMarkersRefOnly(c) == [c EXCEPT !.markersRef = << >>]

\* markersRef.current.forEach(marker => marker.remove()); markersRef.current = []
ClearMarkers(c) ==
  [c EXCEPT !.mapMarkers = c.mapMarkers (-) BagOfSeq(c.markersRef),
            !.markersRef = << >>]

\* getLeaves throws for this primitive ("No cluster with the specified id").
LeavesThrow(prim) == prim.cluster /\ leafFault = "throws"

\* The number of primitives clusters.forEach handles before an exception
\* of calculateClusterAQI ends it: all of them if none throws.
Handled(clusters) ==
  LET bad == {i \in 1..Len(clusters) : LeavesThrow(clusters[i])}
  IN IF bad = {} THEN Len(clusters) ELSE SetMin(bad) - 1

\* clusters.forEach: one marker per primitive, added to the map and tracked;
\* nothing catches an exception of calculateClusterAQI.
AddMarkers(c, index, clusters) ==
  LET made == [i \in 1..Handled(clusters) |-> MarkerFor(index, clusters[i])]
  IN [c EXCEPT !.mapMarkers = c.mapMarkers (+) BagOfSeq(made),
               !.markersRef = c.markersRef \o made,
               !.threw = c.threw \/ Handled(clusters) < Len(clusters)]

\* A record step that commits the zoom but not the bounds.
RecordStateZoomOnly(c, vp) == [c EXCEPT !.lastZoom = <<vp.zoom>>]

\* Record current state: lastZoom = zoom; lastBounds = bounds
RecordState(c, vp) ==
  [c EXCEPT !.lastZoom = <<vp.zoom>>, !.lastBounds = BBox(vp)]

\* An updateClusters that commits the viewport before it tests the gate.
UpdateClustersCommitFirst(c, vp, index) ==
  IF ~UpdateNeeded(c, vp)
  THEN RecordState(c, vp)
  ELSE LET clusters == GetClusters(index, BBox(vp), QueryZoom(vp.zoom))
       IN [AddMarkers(ClearMarkers(RecordState(c, vp)), index, clusters) EXCEPT
             !.prims = clusters, !.rec = @ + 1]

\* An updateClusters that returns before clearing when the query is empty.
UpdateClustersSkipEmpty(c, vp, index) ==
  IF ~UpdateNeeded(c, vp)
  THEN c
  ELSE LET clusters == GetClusters(index, BBox(vp), QueryZoom(vp.zoom))
       IN IF clusters = << >>
          THEN [RecordState(c, vp) EXCEPT !.prims = clusters, !.rec = @ + 1]
          ELSE [AddMarkers(ClearMarkers(RecordState(c, vp)), index, clusters) EXCEPT
                  !.prims = clusters, !.rec = @ + 1]

UpdateClusters(c, vp, index) ==
  IF ~UpdateNeeded(c, vp)
  THEN c
  ELSE LET clusters == GetClusters(index, BBox(vp), QueryZoom(vp.zoom))
           cleared == ClearMarkers(RecordState(c, vp))
       IN [AddMarkers(cleared, index, clusters) EXCEPT
             !.prims = clusters, !.rec = @ + 1]

\* ------------------------------------------------------------------ timers
ClearTimeout(c) == [c EXCEPT !.timers = c.timers \ {c.updateTimeout}]

\* setTimeout returns an id no pending timer has and no handle still names.
SetTimeout(c) ==
  LET id == SetMin({i \in 1..(Cardinality(c.timers) + 2) :
                      i \notin c.timers /\ i # c.updateTimeout})
  IN [c EXCEPT !.timers = c.timers \cup {id}, !.updateTimeout = id]

\* A debounce that schedules without cancelling the timer pending.
DebouncedWithoutClear(c) == SetTimeout(c)

DebouncedUpdateClusters(c) == SetTimeout(ClearTimeout(c))

\* An immediate update that leaves the pending timer alone.
ImmediateWithoutClear(c, vp, index) == UpdateClusters(c, vp, index)

ImmediateUpdateClusters(c, vp, index) == UpdateClusters(ClearTimeout(c), vp, index)

\* ----------------------------------------------------------------- effects
\* A cleanup that unregisters the handlers but leaves the timer pending.
UpdateEffectCleanupKeepsTimer(c) ==
  IF ~c.hasCleanup THEN c
  ELSE [c EXCEPT !.handlers = IF c.handlers > 0 THEN c.handlers - 1 ELSE 0,
                 !.hasCleanup = FALSE,
                 !.lastZoom = << >>, !.lastBounds = << >>]

\* A cleanup that clears the timer but leaves the handlers registered.
UpdateEffectCleanupKeepsHandlers(c) ==
  IF ~c.hasCleanup THEN c
  ELSE [ClearTimeout(c) EXCEPT
          !.hasCleanup = FALSE,
          !.lastZoom = << >>, !.lastBounds = << >>, !.updateTimeout = 0]

\* The cleanup the update effect returns.
UpdateEffectCleanup(c) ==
  IF ~c.hasCleanup THEN c
  ELSE [ClearTimeout(c) EXCEPT
          !.handlers = IF c.handlers > 0 THEN c.handlers - 1 ELSE 0,
          !.hasCleanup = FALSE,
          !.lastZoom = << >>, !.lastBounds = << >>, !.updateTimeout = 0]

\* A visibility effect that removes nothing.
VisibilityEffectNoop(c, visible) == c

\* useEffect(() => { if (!visible) remove every marker }, [map, visible])
VisibilityEffect(c, visible) == IF ~visible THEN ClearMarkers(c) ELSE c

\* The update effect's guard.
UpdateEffectRuns(cref, visible) == cref # << >> /\ visible

\* An update effect without the initial call of updateClusters.
UpdateEffectNoInitial(c, vp, cref, visible) ==
  IF ~UpdateEffectRuns(cref, visible) THEN c
  ELSE [c EXCEPT !.lastZoom = << >>, !.lastBounds = << >>, !.updateTimeout = 0,
                 !.handlers = c.handlers + 1, !.hasCleanup = TRUE]

\* The update effect: fresh closure state, handlers registered, initial update.
UpdateEffect(c, vp, cref, visible) ==
  IF ~UpdateEffectRuns(cref, visible) THEN c
  ELSE LET fresh == [c EXCEPT !.lastZoom = << >>, !.lastBounds = << >>,
                              !.updateTimeout = 0,
                              !.handlers = c.handlers + 1, !.hasCleanup = TRUE]
           done == UpdateClusters(fresh, vp, cref[1])
       IN \* an exception of the initial update leaves the effect before
          \* it returns its cleanup
          IF done.threw /\ ~c.threw THEN [done EXCEPT !.hasCleanup = FALSE]
          ELSE done

\* An index effect that loads only the first feature.
IndexEffectFirst(cref, sts) ==
  IF Len(sts) = 0 THEN cref ELSE <<SubSeq(Features(sts), 1, 1)>>

\* The index effect: a new Supercluster loaded with the dataset's features.
IndexEffect(cref, sts) == IF Len(sts) = 0 THEN cref ELSE <<Features(sts)>>

\* Writes an overlay value back to the variables.
Store(c) ==
  /\ lastZoom' = c.lastZoom
  /\ lastBounds' = c.lastBounds
  /\ markersRef' = c.markersRef
  /\ mapMarkers' = c.mapMarkers
  /\ timers' = c.timers
  /\ updateTimeout' = c.updateTimeout
  /\ handlers' = c.handlers
  /\ hasCleanup' = c.hasCleanup
  /\ lastPrims' = c.prims
  /\ renderError' = c.threw

\* kind: "move" (a move or zoom event), "end" (a moveend or zoomend event),
\* "timer" (a timer expired), "toggle" (the layer was toggled), "effect" (another
\* render ran effects); rec: the number
\* of recomputes (marker clear plus index query) the action performed.
Did(kind, c) == [kind |-> kind, rec |-> c.rec]


\* ------------------------------------------------------- event dispatch
\* map.fire(event): every registered handler set runs its handler once.
RECURSIVE DispatchImmediate(_, _, _, _)
DispatchImmediate(c, n, vp, index) ==
  IF n = 0 THEN c
  ELSE DispatchImmediate(ImmediateUpdateClusters(c, vp, index), n - 1, vp, index)

RECURSIVE DispatchDebounced(_, _)
DispatchDebounced(c, n) ==
  IF n = 0 THEN c ELSE DispatchDebounced(DebouncedUpdateClusters(c), n - 1)

\* map.on("move" | "zoom", immediateUpdateClusters)
OnMove(c, vp) ==
  IF clusterRef = << >> THEN c
  ELSE DispatchImmediate(c, c.handlers, vp, clusterRef[1])

\* map.on("moveend" | "zoomend", debouncedUpdateClusters)
OnMoveEnd(c) == DispatchDebounced(c, c.handlers)

\* The gate as the properties state it: the viewport differs from the
\* committed one by more than a threshold (or nothing is committed yet).
ExceedsGate(vp, lz, lb) ==
  \/ lb = << >>
  \/ \E i \in 1..4 : Abs(BBox(vp)[i] - lb[i]) > 5
  \/ Abs(vp.zoom - (IF lz = << >> THEN 0 ELSE lz[1])) > 5

CapTwo(n) == IF n > 2 THEN 2 ELSE n

\* ------------------------------------------- the marker-based fire overlay
\* FireDataRecord; a string that is formatted or parsed is written as the
\* sequence of its tokens (a date, a digit, " ", ":").
FiresA ==
  << [latitude |-> 39010, longitude |-> -98005, brightness |-> 330, scan |-> 10,
      track |-> 11, acq_date |-> <<"2025-10-01">>, acq_time |-> <<"1", "3", "0">>,
      satellite |-> "N", confidence |-> "n", version |-> "2.0NRT",
      bright_t31 |-> 295, frp |-> 12, daynight |-> "N"],
     [latitude |-> 38990, longitude |-> -97990, brightness |-> 410, scan |-> 4,
      track |-> 4, acq_date |-> <<"2025-10-02">>, acq_time |-> <<"1", "9", "4", "5">>,
      satellite |-> "N", confidence |-> "h", version |-> "2.0NRT",
      bright_t31 |-> 301, frp |-> 48, daynight |-> "D"] >>

FireDatasets == {FiresA, << >>}

FmOverlay ==
  [markersRef |-> fmMarkersRef, mapMarkers |-> fireMapMarkers,
   zoomHandlers |-> fmZoomHandlers, hasCleanup |-> fmHasCleanup]

\* createFireMarker(fire)
CreateFireMarker(fire) == [kind |-> "fire", fire |-> fire]

\* markersRef.current.forEach(marker => marker.remove()); markersRef.current = []
FmClearMarkers(f) ==
  [f EXCEPT !.mapMarkers = f.mapMarkers (-) BagOfSeq(f.markersRef),
            !.markersRef = << >>]

\* The cleanup the marker effect returns.
FmMarkerCleanup(f) ==
  IF ~f.hasCleanup THEN f
  ELSE [FmClearMarkers(f) EXCEPT
          !.zoomHandlers = IF f.zoomHandlers > 0 THEN f.zoomHandlers - 1 ELSE 0,
          !.hasCleanup = FALSE]

\* useEffect(() => { if (!visible) remove every marker }, [map, visible])
FmVisibilityEffect(f, visible) == IF ~visible THEN FmClearMarkers(f) ELSE f

\* The marker effect: one marker per fire record, and a zoom handler.
FmMarkerEffect(f, data, visible) ==
  IF Len(data) = 0 \/ ~visible THEN f
  ELSE LET made == [i \in 1..Len(data) |-> CreateFireMarker(data[i])]
           g == FmClearMarkers(f)
       IN [g EXCEPT !.mapMarkers = g.mapMarkers (+) BagOfSeq(made),
                    !.markersRef = made,
                    !.zoomHandlers = g.zoomHandlers + 1,
                    !.hasCleanup = TRUE]

\* A render caused by the parent: onFireClick, hence createFireMarker, is new.
ParentRenderFm(f, visible) ==
  LET f1 == FmMarkerCleanup(f)
      f2 == IF visible # showFireData THEN FmVisibilityEffect(f1, visible) ELSE f1
  IN FmMarkerEffect(f2, fireData, visible)

StoreFm(f) ==
  /\ fmMarkersRef' = f.markersRef
  /\ fireMapMarkers' = f.mapMarkers
  /\ fmZoomHandlers' = f.zoomHandlers
  /\ fmHasCleanup' = f.hasCleanup

\* ------------------------------------------- the symbol-layer fire overlay
SymOverlay ==
  [source |-> symSource, layer |-> symLayer, once |-> symOnce, click |-> symClick,
   hasCleanup |-> symHasCleanup]

UpTo(n, max) == IF n > max THEN max ELSE n

\* ensureLayers: add the source or set its data; add the layer if missing.
EnsureLayers(sy, data, visible) ==
  [sy EXCEPT !.source = <<data>>,
             !.layer = IF sy.layer = "none"
                       THEN (IF visible THEN "visible" ELSE "hidden")
                       ELSE sy.layer]

\* if (map.isStyleLoaded()) ensureLayers(); else map.once("load", onLoad)
EnsureOrDefer(sy, data, visible, styleOk) ==
  IF styleOk THEN EnsureLayers(sy, data, visible)
  ELSE [sy EXCEPT !.once = UpTo(sy.once + 1, MaxOnce)]

\* The cleanup the layer effect returns: the click handler is removed only
\* if the layer exists.
SymLayerCleanup(sy) ==
  IF ~sy.hasCleanup THEN sy
  ELSE [sy EXCEPT !.click = IF sy.layer # "none" /\ sy.click > 0
                            THEN sy.click - 1 ELSE sy.click,
                  !.hasCleanup = FALSE]

\* The layer effect.
SymLayerEffect(sy, data, visible, styleOk) ==
  IF Len(data) = 0 THEN sy
  ELSE [EnsureOrDefer(sy, data, visible, styleOk) EXCEPT
          !.click = UpTo(sy.click + 1, MaxOnce + 1), !.hasCleanup = TRUE]

\* Sync visibility: setLayoutProperty if the layer exists.
SymSyncVisibility(sy, visible) ==
  IF sy.layer = "none" THEN sy
  ELSE [sy EXCEPT !.layer = IF visible THEN "visible" ELSE "hidden"]

\* The map's load event runs the once("load") listeners.
SymOnLoad(sy, data, visible) ==
  IF sy.once = 0 THEN sy
  ELSE EnsureLayers([sy EXCEPT !.once = 0], data, visible)

ParentRenderSym(sy, visible) ==
  LET s1 == SymLayerEffect(SymLayerCleanup(sy), symData, visible, styleLoaded)
  IN IF visible # showFireData THEN SymSyncVisibility(s1, visible) ELSE s1

StoreSym(sy) ==
  /\ symSource' = sy.source
  /\ symLayer' = sy.layer
  /\ symOnce' = sy.once
  /\ symClick' = sy.click
  /\ symHasCleanup' = sy.hasCleanup

\* ------------------------------------------------------------- map events
\* The camera moves to v and the map fires "move".
MapMove(v) ==
  /\ v \in AllViewports
  /\ viewport' = v
  /\ LET c == OnMove(Overlay, v)
     IN /\ Store(c)
        /\ step' = Did("move", c)
        /\ chg' = IF v # viewport
                  THEN [big |-> handlers > 0 /\ ExceedsGate(v, lastZoom, lastBounds),
                        rec |-> CapTwo(c.rec)]
                  ELSE [chg EXCEPT !.rec = CapTwo(@ + c.rec)]
  /\ burst' = 0
  /\ UNCHANGED <<uiVars, mapLoaded, mapInstance, styleLoaded, showAirQuality, showFireData,
                 aqData, fmVars, fmData, symVars, symFetchVars>>

\* The map fires "zoom" for the frame it has just moved to; the fire
\* overlay's zoom handler only resizes its markers' elements.
MapZoom ==
  /\ LET c == OnMove(Overlay, viewport)
     IN /\ Store(c)
        /\ step' = Did("move", c)
        /\ chg' = [chg EXCEPT !.rec = CapTwo(@ + c.rec)]
  /\ burst' = 0
  /\ UNCHANGED <<uiVars, mapVars, showAirQuality, showFireData, aqData, fmVars, fmData,
                 symVars, symFetchVars>>

\* The map fires "moveend" or "zoomend".
MapEnd(ev) ==
  /\ ev \in {"moveend", "zoomend"}
  /\ LET c == OnMoveEnd(Overlay)
     IN /\ Store(c)
        /\ step' = Did("end", c)
  /\ burst' = IF handlers > 0 THEN CapTwo(burst + 1) ELSE 0
  /\ UNCHANGED <<uiVars, mapVars, showAirQuality, showFireData, aqData, fmVars, fmData,
                 symVars, symFetchVars, chg>>

\* A pending timer expires and runs its callback, updateClusters.
TimerFire(id) ==
  /\ id \in timers
  /\ clusterRef # << >>
  /\ LET c == UpdateClusters([Overlay EXCEPT !.timers = timers \ {id}],
                             viewport, clusterRef[1])
     IN /\ Store(c)
        /\ step' = Did("timer", c)
        /\ chg' = [chg EXCEPT !.rec = CapTwo(@ + c.rec)]
  /\ UNCHANGED <<uiVars, mapVars, showAirQuality, showFireData, aqData, fmVars, fmData,
                 symVars, symFetchVars, burst>>

\* The style starts or finishes loading sources and tiles after the load event.
StyleBusy ==
  /\ mapLoaded /\ styleLoaded
  /\ styleLoaded' = FALSE
  /\ UNCHANGED <<uiVars, mapLoaded, mapInstance, viewport, showAirQuality, showFireData,
                 aqVars, aqData, fmVars, fmData, symVars, symFetchVars, hist>>

StyleIdle ==
  /\ mapLoaded /\ ~styleLoaded
  /\ styleLoaded' = TRUE
  /\ UNCHANGED <<uiVars, mapLoaded, mapInstance, viewport, showAirQuality, showFireData,
                 aqVars, aqData, fmVars, fmData, symVars, symFetchVars, hist>>

\* ------------------------------------------------------------ MapBase
\* A MapBase that hands the map to the overlays as soon as it is created.
MapInstanceAtCreation == TRUE

\* The value MapBase's mapInstance has before the map's load event.
MapInstanceBeforeLoad == FALSE

\* A render of the cluster overlay caused by its parent: onStationClick is a
\* new function, so the update effect is cleaned up and runs again.
ParentRenderAQ(c, visible) ==
  LET c1 == UpdateEffectCleanup(c)
      c2 == IF visible # showAirQuality THEN VisibilityEffect(c1, visible) ELSE c1
  IN UpdateEffect(c2, viewport, clusterRef, visible)

\* MapBase renders with the given visible props; every mounted overlay renders.
RenderAll(kind, visAQ, visFire) ==
  /\ showAirQuality' = visAQ
  /\ showFireData' = visFire
  /\ IF mapInstance
     THEN /\ LET c == ParentRenderAQ(Overlay, visAQ)
             IN Store(c) /\ step' = Did(kind, c)
          /\ StoreFm(ParentRenderFm(FmOverlay, visFire))
          /\ StoreSym(ParentRenderSym(SymOverlay, visFire))
     ELSE /\ step' = Did(kind, Overlay)
          /\ UNCHANGED <<aqVars, fmVars, symVars>>
  /\ burst' = 0
  /\ UNCHANGED <<uiVars, mapVars, aqData, fmData, symFetchVars, chg>>

\* map.on("load"): setMapInstance(map); the overlays mount, run their
\* effects for the first time and start to fetch.
MapLoad ==
  /\ ~mapLoaded
  /\ mapLoaded' = TRUE
  /\ mapInstance' = TRUE
  /\ styleLoaded' = TRUE
  /\ IF mapInstance
     THEN /\ StoreSym(SymOnLoad(SymOverlay, symData, showFireData))
          /\ UNCHANGED <<aqVars, aqFetch, loading, error, fmVars, fmFetch,
                         fmLoading, fmError, symFetch>>
     ELSE /\ aqFetch' = "pending" /\ loading' = TRUE /\ error' = "null"
          /\ fmFetch' = "pending" /\ fmLoading' = TRUE /\ fmError' = "null"
          /\ symFetch' = "pending"
          /\ Store(UpdateEffect(VisibilityEffect(Overlay, showAirQuality),
                                viewport, clusterRef, showAirQuality))
          /\ StoreFm(FmMarkerEffect(FmVisibilityEffect(FmOverlay, showFireData),
                                    fireData, showFireData))
          /\ StoreSym(SymSyncVisibility(
                        SymLayerEffect(SymOverlay, symData, showFireData, TRUE),
                        showFireData))
  /\ step' = [kind |-> "effect", rec |-> 0]
  /\ burst' = 0
  /\ UNCHANGED <<uiVars, viewport, showAirQuality, showFireData, stations, clusterRef,
                 invalidLogged,
                 fireData, symData, chg>>

\* The user toggles a layer in MapControls.
ToggleAirQuality == RenderAll("toggle", ~showAirQuality, showFireData)

ToggleFireData == RenderAll("effect", showAirQuality, ~showFireData)

\* MapBase renders again for another reason (a weather layer is toggled).
ParentRender == mapInstance /\ RenderAll("effect", showAirQuality, showFireData)

\* ------------------------------------------------------------ fetchStations
\* getAllStations resolves: setStations(data.stations), setLoading(false);
\* the index effect runs, and the update effect if stations.length changed.
FetchStationsResolved(data) ==
  /\ aqFetch = "pending"
  /\ aqFetch' = "done"
  /\ stations' = data
  /\ loading' = FALSE
  /\ clusterRef' = IndexEffect(clusterRef, data)
  /\ invalidLogged' = IF Len(data) = 0 THEN invalidLogged
                      ELSE invalidLogged \o IndexLogs(data)
  /\ LET c == IF Len(data) # Len(stations)
              THEN UpdateEffect(UpdateEffectCleanup(Overlay), viewport,
                                clusterRef', showAirQuality)
              ELSE Overlay
     IN Store(c) /\ step' = Did("effect", c)
  /\ burst' = 0
  /\ UNCHANGED <<uiVars, mapVars, showAirQuality, showFireData, error, fmVars, fmData,
                 symVars, symFetchVars, chg>>

FetchStationsOk(data) == data \in Datasets /\ FetchStationsResolved(data)

\* What getAllStations and getRecentFireData reject with: the Error they throw
\* for a response that is not ok, or the TypeError of a failed fetch.
Rejections ==
  {[isError |-> TRUE, message |-> "API Error: unavailable - upstream down"],
   [isError |-> TRUE, message |-> "Failed to fetch"]}

\* A message that ignores what was thrown.
ErrorTextFallback(err, fallback) == fallback

\* err instanceof Error ? err.message : fallback
ErrorText(err, fallback) == IF err.isError THEN err.message ELSE fallback

\* getAllStations rejects: setError(message), setLoading(false).
FetchStationsRejected(err) ==
  /\ aqFetch = "pending"
  /\ aqFetch' = "done"
  /\ error' = ErrorText(err, "Failed to fetch stations")
  /\ loading' = FALSE
  /\ step' = Did("effect", Overlay)
  /\ burst' = 0
  /\ UNCHANGED <<uiVars, mapVars, showAirQuality, showFireData, aqVars, stations, clusterRef,
                 invalidLogged,
                 fmVars, fmData, symVars, symFetchVars, chg>>

FetchStationsFail == \E err \in Rejections : FetchStationsRejected(err)

\* ------------------------------------------------------------ fetchFireData
\* The marker-based overlay's getRecentFireData resolves: setFireData(data.data);
\* the marker effect is cleaned up and runs again.
FetchFireOk(data) ==
  /\ fmFetch = "pending"
  /\ data \in FireDatasets
  /\ fmFetch' = "done"
  /\ fireData' = data
  /\ fmLoading' = FALSE
  /\ fmError' = fmError
  /\ StoreFm(FmMarkerEffect(FmMarkerCleanup(FmOverlay), data, showFireData))
  /\ UNCHANGED <<uiVars, mapVars, showAirQuality, showFireData, aqVars, aqData,
                 symVars, symFetchVars, hist>>

\* getRecentFireData rejects: setError(message), setLoading(false).
FetchFireRejected(err) ==
  /\ fmFetch = "pending"
  /\ fmFetch' = "done"
  /\ fmError' = ErrorText(err, "Failed to fetch fire data")
  /\ fmLoading' = FALSE
  /\ UNCHANGED <<uiVars, mapVars, showAirQuality, showFireData, aqVars, aqData, fmVars,
                 fireData, symVars, symFetchVars, hist>>

FetchFireFail == \E err \in Rejections : FetchFireRejected(err)

\* The symbol-layer overlay's getRecentFireData resolves; its layer effect is
\* cleaned up and runs again.
SymFetchOk(data) ==
  /\ symFetch = "pending"
  /\ data \in FireDatasets
  /\ symFetch' = "done"
  /\ symData' = data
  /\ StoreSym(SymLayerEffect(SymLayerCleanup(SymOverlay), data, showFireData,
                             styleLoaded))
  /\ UNCHANGED <<uiVars, mapVars, showAirQuality, showFireData, aqVars, aqData, fmVars,
                 fmData, hist>>

SymFetchFail ==
  /\ symFetch = "pending"
  /\ symFetch' = "done"
  /\ UNCHANGED <<uiVars, mapVars, showAirQuality, showFireData, aqVars, aqData, fmVars,
                 fmData, symVars, symData, hist>>

\* ------------------------------------------------ fire records and GeoJSON
\* The position of the first ch in s, or 0.
Find(s, ch) ==
  IF \E i \in 1..Len(s) : s[i] = ch
  THEN SetMin({i \in 1..Len(s) : s[i] = ch}) ELSE 0

\* s.split(ch)[0] and s.split(ch)[1] || ""
SplitFirst(s, ch) == IF Find(s, ch) = 0 THEN s ELSE SubSeq(s, 1, Find(s, ch) - 1)

SplitSecond(s, ch) ==
  IF Find(s, ch) = 0 THEN << >>
  ELSE SplitFirst(SubSeq(s, Find(s, ch) + 1, Len(s)), ch)

\* s.replace(ch, ""): the first occurrence is removed.
RemoveFirst(s, ch) ==
  IF Find(s, ch) = 0 THEN s
  ELSE SubSeq(s, 1, Find(s, ch) - 1) \o SubSeq(s, Find(s, ch) + 1, Len(s))

\* acq_time.padStart(4, "0")
RECURSIVE PadStart4(_)
PadStart4(s) == IF Len(s) >= 4 THEN s ELSE PadStart4(<<"0">> \o s)

\* FireDataService.formatAcquisitionTime
FormatAcquisitionTime(acq_date, acq_time) ==
  LET timeStr == PadStart4(acq_time)
  IN acq_date \o <<" ">> \o SubSeq(timeStr, 1, 2) \o <<":">> \o SubSeq(timeStr, 3, 4)

\* FireDataService.getDayNightDescription
GetDayNightDescription(daynight) == IF daynight = "D" THEN "Day" ELSE "Night"

\* toGeoJSON: the feature of one fire record (the properties the click
\* handler reads).
ToGeoJSON(f) ==
  [coordinates |-> <<f.longitude, f.latitude>>,
   properties |-> [brightness |-> f.brightness,
                   dayNight |-> GetDayNightDescription(f.daynight),
                   acqTime |-> FormatAcquisitionTime(f.acq_date, f.acq_time),
                   satellite |-> f.satellite, confidence |-> f.confidence,
                   frp |-> f.frp]]

\* onPointClick: the record it hands to onFireClick for the feature of f.
OnPointClick(f) ==
  LET p == ToGeoJSON(f).properties
      coordinates == ToGeoJSON(f).coordinates
  IN [latitude |-> coordinates[2], longitude |-> coordinates[1],
      brightness |-> p.brightness, scan |-> 0, track |-> 0,
      acq_date |-> SplitFirst(p.acqTime, " "),
      acq_time |-> RemoveFirst(SplitSecond(p.acqTime, " "), ":"),
      satellite |-> p.satellite, confidence |-> p.confidence, version |-> "",
      bright_t31 |-> 0, frp |-> p.frp,
      daynight |-> IF p.dayNight = "Day" THEN "D" ELSE "N"]

\* MapBase.handleFireClick: the fly-to it requests.
HandleFireClick(fire) ==
  [center |-> <<fire.longitude, fire.latitude>>, zoom |-> FireFlyZoom]

\* The user clicks the i-th marker of the marker-based fire overlay.
ClickFireMarker(i) ==
  /\ mapInstance
  /\ i \in 1..Len(fmMarkersRef)
  /\ clicked' = <<[overlay |-> "fire markers", record |-> fmMarkersRef[i].fire]>>
  /\ flyTo' = <<HandleFireClick(fmMarkersRef[i].fire)>>
  /\ step' = [kind |-> "click", rec |-> 0]
  /\ UNCHANGED <<mapVars, showAirQuality, showFireData, aqVars, aqData, fmVars, fmData,
                 symVars, symFetchVars, chg, burst, leafFault, extVars>>

\* The user clicks the i-th point of the symbol layer.
ClickFirePoint(i) ==
  /\ mapInstance
  /\ symLayer = "visible" /\ symClick > 0 /\ symSource # << >>
  /\ i \in 1..Len(symSource[1])
  /\ clicked' = <<[overlay |-> "fire symbols", record |-> OnPointClick(symSource[1][i])]>>
  /\ flyTo' = <<HandleFireClick(OnPointClick(symSource[1][i]))>>
  /\ step' = [kind |-> "click", rec |-> 0]
  /\ UNCHANGED <<mapVars, showAirQuality, showFireData, aqVars, aqData, fmVars, fmData,
                 symVars, symFetchVars, chg, burst, leafFault, extVars>>

\* ------------------------------------------------------------ marker clicks
\* A fly-to zoom without the cap.
ClusterFlyZoomUncapped(zoom) == zoom + 200

\* Math.min(map.getZoom() + 2, 14)
ClusterFlyZoom(zoom) == IF zoom + 200 < FlyToCap THEN zoom + 200 ELSE FlyToCap

\* MapBase.handleStationClick: the fly-to it requests.
HandleStationClick(station) ==
  [center |-> <<station.lng, station.lat>>, zoom |-> StationFlyZoom]

\* The user clicks the i-th marker of the cluster overlay.
ClickMarker(i) ==
  /\ mapInstance /\ showAirQuality
  /\ i \in 1..Len(markersRef)
  /\ LET m == markersRef[i]
     IN IF m.kind = "cluster"
        THEN /\ flyTo' = <<[center |-> <<m.lng, m.lat>>,
                            zoom |-> ClusterFlyZoom(viewport.zoom)]>>
             /\ clicked' = clicked
        ELSE /\ clicked' = <<[overlay |-> "stations", record |-> m.station]>>
             /\ flyTo' = <<HandleStationClick(m.station)>>
  /\ step' = [kind |-> "click", rec |-> 0]
  /\ UNCHANGED <<mapVars, showAirQuality, showFireData, aqVars, aqData, fmVars, fmData,
                 symVars, symFetchVars, chg, burst, leafFault, extVars>>

\* ------------------------------------------------------- index inconsistency
\* The index starts to answer getLeaves wrongly: it throws, or returns no leaf.
IndexInconsistency(kind) ==
  /\ kind \in {"throws", "empty"}
  /\ clusterRef # << >> /\ leafFault = "none"
  /\ leafFault' = kind
  /\ step' = [kind |-> "fault", rec |-> 0]
  /\ UNCHANGED <<mapVars, showAirQuality, showFireData, aqVars, aqData, fmVars, fmData,
                 symVars, symFetchVars, chg, burst, clicked, flyTo, extVars>>

\* ------------------------------------------------------ AirQualityService
\* The AirNow records a response can carry; city and state are written as
\* sequences of tokens, "," being the comma.
RawRecords ==
  { [city |-> <<"A">>, state |-> <<"K">>, pollutant |-> "PM2.5", aqi |-> 40,
     category |-> "Good", longitude |-> -98010, latitude |-> 39000],
    [city |-> <<"A">>, state |-> <<"K">>, pollutant |-> "O3", aqi |-> 55,
     category |-> "Moderate", longitude |-> -98010, latitude |-> 39000],
    [city |-> <<"B">>, state |-> <<"K">>, pollutant |-> "PM2.5", aqi |-> 10,
     category |-> "Good", longitude |-> -98007, latitude |-> 39000],
    [city |-> <<"A">>, state |-> <<"M">>, pollutant |-> "O3", aqi |-> 25,
     category |-> "Good", longitude |-> -92000, latitude |-> 38000],
    [city |-> <<"A", ",", "B">>, state |-> <<"C">>, pollutant |-> "O3", aqi |-> 20,
     category |-> "Good", longitude |-> -97000, latitude |-> 40000],
    [city |-> <<"A">>, state |-> <<"B", ",", "C">>, pollutant |-> "PM2.5", aqi |-> 30,
     category |-> "Good", longitude |-> -96000, latitude |-> 41000] }

\* fastApiData.data of a response
RawInputs == UNION {[1..k -> RawRecords] : k \in 0..MaxRecords}

\* const key = `${record.city},${record.state}`
Key(record) == record.city \o <<",">> \o record.state

\* The position of key among the entries of the station map, or 0.
KeySlot(map, key) ==
  IF \E p \in 1..Len(map) : map[p].key = key
  THEN SetMin({p \in 1..Len(map) : map[p].key = key}) ELSE 0

\* stationMap after the first i records: its entries in insertion order.
RECURSIVE StationMap(_, _)
StationMap(raw, i) ==
  IF i = 0 THEN << >>
  ELSE LET map == StationMap(raw, i - 1)
           record == raw[i]
           key == Key(record)
           has == KeySlot(map, key) # 0
           set == IF has THEN map
                  ELSE Append(map, [key |-> key,
                                    station |-> [city |-> record.city,
                                                 state |-> record.state,
                                                 lng |-> record.longitude,
                                                 lat |-> record.latitude,
                                                 pollutants |-> {}]])
           p == KeySlot(set, key)
       IN [set EXCEPT ![p].station.pollutants =
             {q \in @ : q.name # record.pollutant}
               \cup {[name |-> record.pollutant, value |-> record.aqi,
                      category |-> record.category]}]

\* transformFastAPIResponse (the timestamp is left out)
TransformFastAPIResponse(raw) ==
  LET map == StationMap(raw, Len(raw))
  IN [totalStations |-> Len(map),
      stations |-> [p \in 1..Len(map) |-> map[p].station]]

\* getAllStations on a response that is ok.
GetAllStationsOk(raw) ==
  /\ raw \in RawInputs
  /\ aqFetch = "pending" /\ apiResponse = << >>
  /\ rawData' = raw
  /\ apiResponse' = <<TransformFastAPIResponse(raw)>>
  /\ UNCHANGED <<mapVars, showAirQuality, showFireData, aqVars, aqData, fmVars, fmData,
                 symVars, symFetchVars, hist, clicked, flyTo, leafFault, svcOutcome, lifeVars,
                 pageVars>>

\* ------------------------------------------------------------ the services
Services ==
  {"air quality", "fire data", "precipitation", "temperature", "humidity",
   "fire risk", "WSTI"}

\* The {error, message} envelope of the backend.
Envelopes ==
  {[error |-> "unavailable", message |-> "upstream down"],
   [error |-> "not_found", message |-> "no data for location"]}

\* What fetch resolves with: the status, whether the body parses as JSON,
\* and the body (an envelope, or a payload with or without data points).
Responses ==
  {[ok |-> FALSE, status |-> st, json |-> j, body |-> e] :
     st \in {404, 503}, j \in BOOLEAN, e \in Envelopes}
  \cup {[ok |-> TRUE, status |-> 200, json |-> TRUE, body |-> b] :
           b \in {"data", "no data"}}

Rejected(message) == [rejected |-> TRUE, message |-> message]

Resolved == [rejected |-> FALSE, message |-> << >>]

\* throw new Error(`API Error: ${err.error} - ${err.message}`)
ApiError(err) == Rejected(<<"API Error: ", err.error, " - ", err.message>>)

\* The services that parse the body and then test response.ok.
EnvelopeService(service, response) ==
  IF ~response.json THEN Rejected(<<"SyntaxError">>)
  ELSE IF ~response.ok THEN ApiError(response.body)
  ELSE IF service \in {"temperature", "humidity"} /\ response.body = "no data"
       THEN Rejected(<<"No ", service, " data available">>)
       ELSE Resolved

\* WSTIService.getWSTIHeatmap: tests response.ok, then parses the body.
GetWSTIHeatmap(response) ==
  IF ~response.ok THEN Rejected(<<"HTTP error! status: ", response.status>>)
  ELSE IF ~response.json THEN Rejected(<<"SyntaxError">>)
  ELSE Resolved

ServiceOutcome(service, response) ==
  IF service = "WSTI" THEN GetWSTIHeatmap(response)
  ELSE EnvelopeService(service, response)

\* A service is called and fetch resolves with response.
ServiceCall(service, response) ==
  /\ service \in Services /\ response \in Responses
  /\ svcOutcome' = <<[service |-> service, response |-> response,
                      outcome |-> ServiceOutcome(service, response)]>>
  /\ UNCHANGED <<mapVars, showAirQuality, showFireData, aqVars, aqData, fmVars, fmData,
                 symVars, symFetchVars, hist, clicked, flyTo, leafFault, rawData,
                 apiResponse, lifeVars, pageVars>>

\* ------------------------------------------------------------- unmounting
\* The page is left: MapBase's cleanup removes the map and the cleanups of
\* the overlays' effects run.  The cluster overlay has one effect with a
\* cleanup, the update effect.
Unmount ==
  /\ mapInstance /\ ~unmounted
  /\ unmounted' = TRUE
  /\ Store(UpdateEffectCleanup(Overlay))
  /\ StoreFm(FmMarkerCleanup(FmOverlay))
  /\ StoreSym(SymLayerCleanup(SymOverlay))
  /\ step' = [kind |-> "unmount", rec |-> 0]
  /\ UNCHANGED <<mapVars, showAirQuality, showFireData, aqData, fmData, symFetchVars,
                 chg, burst, clicked, flyTo, leafFault, svcVars,
                 pageVars>>

\* --------------------------------------------------- the selected location
\* The places of the map that are clicked or searched for.
Locations == {<<-98000, 39000>>, <<-97000, 40000>>}

\* What the actions of the page leave alone.
mapSide ==
  <<mapVars, showAirQuality, showFireData, aqVars, aqData, fmVars, fmData,
    symVars, symFetchVars, hist, clicked, flyTo, leafFault, svcVars, lifeVars>>

\* The number of location objects Home has been given so far.
Selections == IF selectedLocation = << >> THEN 0 ELSE selectedLocation[1].id

\* Home.handleLocationSelect: setSelectedLocation(location).  Every call is
\* given a fresh object, which id stands for.
HandleLocationSelect(location) ==
  selectedLocation' = <<[location |-> location, id |-> Selections + 1]>>

\* A location is selected through the location panel (search, locate me).
SelectLocation(location) ==
  /\ location \in Locations
  /\ Selections < MaxSelections
  /\ HandleLocationSelect(location)
  /\ UNCHANGED <<mapSide, weatherVars, panelVars>>

\* ------------------------------------------------ the weather click handler
\* The weather layers in the order in which the handler fetches them.
WeatherLayers == <<"precipitation", "temperature", "humidity", "fireRisk">>

\* The first layer from position k on whose ref is set: the next await of
\* the handler; 0 when none is left.
RECURSIVE NextAwait(_, _)
NextAwait(refs, k) ==
  IF k > Len(WeatherLayers) THEN 0
  ELSE IF WeatherLayers[k] \in refs THEN k
  ELSE NextAwait(refs, k + 1)

WeatherLayerSet == {WeatherLayers[k] : k \in 1..Len(WeatherLayers)}

\* MapControls toggles a weather layer and the effect copies it to its ref.
ToggleWeather(layer) ==
  /\ layer \in WeatherLayerSet
  /\ weatherRefs' = IF layer \in weatherRefs THEN weatherRefs \ {layer}
                    ELSE weatherRefs \cup {layer}
  /\ UNCHANGED <<mapSide, clickHandlers, popups, popupRef, selectedLocation,
                 panelVars>>

\* The map is clicked at location: the handler up to its first await.  A
\* click with no weather layer enabled returns at once and changes nothing.
\* The popup of the n-th handler is popup n; its content is the loading text
\* until the handler is done and the handler's sections from then on.  A
\* section is kept as its layer: a rejected fetch is caught and the handler
\* goes on as after a resolved one, with another text in the section.
MapClick(location) ==
  /\ location \in Locations
  /\ mapLoaded /\ ~unmounted
  /\ Len(clickHandlers) < MaxClicks
  /\ weatherRefs # {}
  /\ LET n == Len(clickHandlers) + 1
     IN /\ popups' = (popups \ {popupRef}) \cup {n}
        /\ popupRef' = n
        /\ clickHandlers' =
             Append(clickHandlers,
                    [location |-> location, at |-> NextAwait(weatherRefs, 1),
                     sections |-> << >>])
  /\ UNCHANGED <<mapSide, weatherRefs, selectedLocation, panelVars>>

\* The fetch the i-th handler awaits resolves or rejects: the handler adds
\* the layer's section and runs on to its next await or to its end, where
\* it sets the popup's content and calls onLocationSelect.
WeatherFetchSettles(i) ==
  /\ i \in 1..Len(clickHandlers)
  /\ clickHandlers[i].at # 0
  /\ LET h == clickHandlers[i]
         next == NextAwait(weatherRefs, h.at + 1)
     IN /\ clickHandlers' =
             [clickHandlers EXCEPT
                ![i] = [location |-> h.location, at |-> next,
                        sections |-> Append(h.sections,
                                            WeatherLayers[h.at])]]
        /\ IF next = 0 THEN HandleLocationSelect(h.location)
           ELSE UNCHANGED selectedLocation
  /\ UNCHANGED <<mapSide, weatherRefs, popups, popupRef, panelVars>>

\* The user closes popup n: its close handler clears popupRef.
PopupClose(n) ==
  /\ n \in popups
  /\ popups' = popups \ {n}
  /\ popupRef' = 0
  /\ UNCHANGED <<mapSide, weatherRefs, clickHandlers, selectedLocation,
                 panelVars>>

\* ------------------------------------------------------ the location panels
Panels == {"precipitation", "temperature", "humidity", "fire risk"}

\* useState(null), useState(false), useState(null); seen is the id of the
\* selectedLocation the effect last ran for, started and refreshes count the
\* panel's fetches and refreshes.
PanelInitial ==
  [data |-> << >>, loading |-> FALSE, error |-> << >>, seen |-> 0,
   started |-> 0, refreshes |-> 0]

\* fetch...Data up to its await: setLoading(true), setError(null), and the
\* request is sent.
StartFetch(panel, p, location) ==
  /\ panelFetches' =
       panelFetches \cup {[panel |-> p, id |-> panel.started + 1,
                           location |-> location]}
  /\ panels' = [panels EXCEPT
                  ![p] = [panel EXCEPT !.loading = TRUE, !.error = << >>,
                                       !.started = @ + 1]]

\* The effect on [selectedLocation] of panel p runs for a new location.
PanelEffect(p) ==
  /\ p \in Panels
  /\ selectedLocation # << >>
  /\ panels[p].seen # selectedLocation[1].id
  /\ StartFetch([panels[p] EXCEPT !.seen = selectedLocation[1].id], p,
                selectedLocation[1].location)
  /\ UNCHANGED <<mapSide, weatherVars, selectedLocation>>

\* handleRefresh of panel p; the fire risk panel has no refresh.
HandleRefresh(p) ==
  /\ p \in Panels \ {"fire risk"}
  /\ selectedLocation # << >>
  /\ panels[p].seen = selectedLocation[1].id
  /\ panels[p].refreshes < MaxRefresh
  /\ StartFetch([panels[p] EXCEPT !.refreshes = @ + 1], p,
                selectedLocation[1].location)
  /\ UNCHANGED <<mapSide, weatherVars, selectedLocation>>

\* The message a panel shows for a rejected fetch; the fire risk panel shows
\* the message of the error.
PanelError(p) ==
  IF p = "fire risk" THEN <<"API Error">>
  ELSE <<"Failed to load ", p, " data">>

\* The fetch f of a panel resolves (ok) or rejects, and the rest of
\* fetch...Data runs: the data or the error is set, then loading is cleared.
\* The location kept with the data and the error is that of the request.
PanelFetchSettles(f, ok) ==
  /\ f \in panelFetches /\ ok \in BOOLEAN
  /\ panelFetches' = panelFetches \ {f}
  /\ panels' =
       [panels EXCEPT
          ![f.panel] =
            [@ EXCEPT
               !.data = IF ok THEN <<[location |-> f.location]>> ELSE << >>,
               !.error = IF ok THEN @
                         ELSE <<[message |-> PanelError(f.panel),
                                 location |-> f.location]>>,
               !.loading = FALSE]]
  /\ UNCHANGED <<mapSide, weatherVars, selectedLocation>>

InitExt ==
  /\ unmounted = FALSE
  /\ rawData = << >>
  /\ apiResponse = << >>
  /\ svcOutcome = << >>
  /\ weatherRefs = WeatherLayerSet
  /\ clickHandlers = << >>
  /\ popups = {}
  /\ popupRef = 0
  /\ selectedLocation = << >>
  /\ panels = [p \in Panels |-> PanelInitial]
  /\ panelFetches = {}

\* ------------------------------------------------------------------ spec
\* An index that exists before any station has been fetched.
ClusterRefPrebuilt == <<Features(StationsA)>>

\* useRef<Supercluster | null>(null)
ClusterRefInitial == << >>

\* The page after MapBase has created the map and before the map's load
\* event; the camera, which can be moved from then on, is at any of the
\* viewports.
Init ==
  /\ mapLoaded = FALSE
  /\ mapInstance = MapInstanceBeforeLoad
  /\ styleLoaded = FALSE
  /\ viewport \in Viewports
  /\ timers = {}
  /\ showAirQuality = TRUE
  /\ showFireData = TRUE
  /\ mapMarkers = EmptyBag
  /\ handlers = 0
  /\ aqFetch = IF MapInstanceBeforeLoad THEN "pending" ELSE "none"
  /\ stations = << >>
  /\ loading = TRUE
  /\ error = "null"
  /\ clusterRef = ClusterRefInitial
  /\ markersRef = << >>
  /\ hasCleanup = FALSE
  /\ lastZoom = << >>
  /\ lastBounds = << >>
  /\ updateTimeout = 0
  /\ renderError = FALSE
  /\ invalidLogged = << >>
  /\ clicked = << >>
  /\ flyTo = << >>
  /\ leafFault = "none"
  /\ InitExt
  /\ fmFetch = IF MapInstanceBeforeLoad THEN "pending" ELSE "none"
  /\ fireData = << >>
  /\ fmLoading = TRUE
  /\ fmError = "null"
  /\ fmMarkersRef = << >>
  /\ fireMapMarkers = EmptyBag
  /\ fmZoomHandlers = 0
  /\ fmHasCleanup = FALSE
  /\ symFetch = IF MapInstanceBeforeLoad THEN "pending" ELSE "none"
  /\ symData = << >>
  /\ symSource = << >>
  /\ symLayer = "none"
  /\ symOnce = 0
  /\ symClick = 0
  /\ symHasCleanup = FALSE
  /\ lastPrims = << >>
  /\ step = [kind |-> "init", rec |-> 0]
  /\ chg = [big |-> FALSE, rec |-> 0]
  /\ burst = 0

\* The cluster overlay on the map: map events, timers, renders, its fetch.
Next ==
  \/ \E v \in Viewports : MapMove(v)
  \/ MapZoom
  \/ \E ev \in {"moveend", "zoomend"} : MapEnd(ev)
  \/ \E id \in timers : TimerFire(id)
  \/ MapLoad
  \/ ToggleAirQuality
  \/ ParentRender
  \/ \E data \in Datasets : FetchStationsOk(data)
  \/ FetchStationsFail

Spec == Init /\ [][Next]_vars

\* The cluster overlay and the marker-based fire overlay side by side.
NextMarkers ==
  \/ Next
  \/ ToggleFireData
  \/ \E data \in FireDatasets : FetchFireOk(data)
  \/ FetchFireFail

SpecMarkers == Init /\ [][NextMarkers]_vars

\* Mounting and loading: the three overlays, their fetches, renders and the
\* style's loading state, with the map firing camera events.
NextLoad ==
  \/ MapZoom
  \/ MapLoad
  \/ StyleBusy
  \/ StyleIdle
  \/ ToggleAirQuality
  \/ ToggleFireData
  \/ ParentRender
  \/ \E data \in Datasets : FetchStationsOk(data)
  \/ \E data \in FireDatasets : FetchFireOk(data)
  \/ \E data \in FireDatasets : SymFetchOk(data)
  \/ SymFetchFail

SpecLoad == Init /\ [][NextLoad]_vars

\* ======================================================================
\* Properties of the cluster overlay
\* ======================================================================
MapEventKinds == {"move", "end", "timer"}

\* The viewport change from a to b is below both thresholds.
SmallChange(a, b) ==
  /\ Abs(b.zoom - a.zoom) <= 5
  /\ \A i \in 1..4 : Abs(BBox(b)[i] - BBox(a)[i]) <= 5

\* The markers updateClusters makes for a viewport with bounds bbox and a zoom.
MarkersAt(bbox, zoom) ==
  LET index == clusterRef[1]
      prims == GetClusters(index, bbox, zoom \div 100)
  IN [i \in 1..Len(prims) |-> MarkerFor(index, prims[i])]

\* C1 as stated: an event whose viewport change is below the thresholds,
\* measured from the viewport before the event, issues no recompute.
C1_StepwiseSmall ==
  [][(step'.kind \in MapEventKinds /\ SmallChange(viewport, viewport'))
       => step'.rec = 0]_vars

\* C1 amended: an event (or timer firing) at which the map's viewport is
\* within the thresholds of the last committed viewport issues no recompute
\* and leaves the markers and the committed viewport as they were.
C1_GateSuppression ==
  [][(step'.kind \in MapEventKinds /\ ~ExceedsGate(viewport', lastZoom, lastBounds))
       => /\ step'.rec = 0
          /\ markersRef' = markersRef /\ mapMarkers' = mapMarkers
          /\ lastZoom' = lastZoom /\ lastBounds' = lastBounds]_vars

C1_Witness ==
  /\ step.kind = "move" /\ step.rec = 0 /\ hasCleanup
  /\ lastBounds # << >> /\ lastBounds # BBox(viewport)

\* C2: after a viewport change that exceeds a threshold relative to the
\* committed viewport, the events of that change (move, zoom, moveend,
\* zoomend, settle timer) have issued exactly one recompute in total.
C2_ExactlyOneRecompute == chg.big => chg.rec = 1

C2_Witness == chg.big /\ chg.rec = 1 /\ step.kind = "timer"

\* C3 as stated: every settle-timer firing performs exactly one recompute.
C3_TimerAlwaysRecomputes == step.kind = "timer" => step.rec = 1

\* C3 amended: a run of moveend/zoomend events leaves exactly one timer
\* pending; the viewport does not change while it stays pending, so its one
\* call of updateClusters reads the viewport of the last event; that call is
\* gated (one recompute if the viewport exceeds the gate, else none) and
\* leaves no timer pending.
C3_DebounceCollapsing ==
  [][/\ (step'.kind = "end" /\ handlers > 0) => Cardinality(timers') = 1
     /\ (timers # {} /\ timers' # {} /\ step'.kind # "end") => viewport' = viewport
     /\ step'.kind = "timer" =>
          /\ timers' = {}
          /\ step'.rec = IF ExceedsGate(viewport, lastZoom, lastBounds) THEN 1 ELSE 0
          /\ step'.rec = 1 => (lastZoom' = <<viewport.zoom>> /\ lastBounds' = BBox(viewport))
    ]_vars

C3_Witness == step.kind = "timer" /\ burst = 2 /\ timers = {} /\ hasCleanup

\* C4: at most one settle timer is pending, it is the one updateTimeout
\* names, and it is pending only while the effect that scheduled it is live
\* and nothing (a move or zoom event, an effect cleanup) has superseded it.
C4_SingleTimer ==
  /\ Cardinality(timers) <= 1
  /\ timers \subseteq {updateTimeout}
  /\ timers # {} => (hasCleanup /\ step.kind = "end")

C4_Witness == burst = 2 /\ Cardinality(timers) = 1 /\ updateTimeout = 2

\* C5 as stated: after the settle timer has fired, the markers are the
\* primitives of the index for the map's current bounds and floored zoom.
C5_MarkersOfCurrentViewport ==
  (step.kind = "timer" /\ hasCleanup)
    => markersRef = MarkersAt(BBox(viewport), viewport.zoom)

\* C5 amended: a pending settle timer eventually fires or is cancelled, and
\* after it has fired the markers are the primitives of the index for the
\* last committed viewport, which the current viewport is within the
\* thresholds of.
C5_SettledState ==
  (step.kind = "timer" /\ hasCleanup)
    => /\ lastBounds # << >>
       /\ ~ExceedsGate(viewport, lastZoom, lastBounds)
       /\ markersRef = MarkersAt(lastBounds, lastZoom[1])

C5_Settle == []C5_SettledState /\ ((timers # {}) ~> (timers = {}))

C5_Witness ==
  /\ step.kind = "timer" /\ hasCleanup /\ lastBounds # BBox(viewport)
  /\ markersRef # << >>

\* C6: the markers on the map are exactly the tracked ones, none twice, and
\* they are the markers of the primitives of the most recent recompute (or
\* none, once the overlay has been hidden).
C6_MarkersMatchPrimitives ==
  /\ mapMarkers = BagOfSeq(markersRef)
  /\ \A m \in BagToSet(mapMarkers) : CopiesIn(m, mapMarkers) = 1
  /\ \A i, j \in 1..Len(markersRef) : markersRef[i] = markersRef[j] => i = j
  /\ markersRef # << >> =>
       markersRef = [i \in 1..Len(lastPrims) |-> MarkerFor(clusterRef[1], lastPrims[i])]
  /\ hasCleanup => Len(markersRef) = Len(lastPrims)

C6_Witness ==
  /\ step.kind = "move" /\ step.rec = 1 /\ Len(markersRef) = 2
  /\ \E i \in 1..2 : markersRef[i].kind = "cluster"

\* C8: a toggle of visible from false to true, with an index present,
\* performs exactly one recompute, after which the markers are the
\* primitives for the map's current viewport.
C8_ToggleOn ==
  (step.kind = "toggle" /\ showAirQuality /\ mapInstance /\ clusterRef # << >>)
    => /\ step.rec = 1
       /\ markersRef = MarkersAt(BBox(viewport), viewport.zoom)
       /\ mapMarkers = BagOfSeq(markersRef)

C8_Witness ==
  /\ step.kind = "toggle" /\ showAirQuality /\ clusterRef # << >>
  /\ Len(markersRef) >= 2

\* ======================================================================
\* Properties of visibility and of mounting
\* ======================================================================
\* C7: while visible is false an overlay has no marker on the map, whatever
\* its dataset, no map event handler and no settle timer, and the last
\* handler or effect of the cluster overlay performed no recompute; for the
\* cluster overlay and for the marker-based fire overlay.
C7_HiddenOverlaysIdle ==
  /\ ~showAirQuality =>
       /\ markersRef = << >> /\ mapMarkers = EmptyBag
       /\ handlers = 0 /\ ~hasCleanup /\ timers = {}
       /\ step.rec = 0
  /\ ~showFireData =>
       /\ fmMarkersRef = << >> /\ fireMapMarkers = EmptyBag
       /\ fmZoomHandlers = 0 /\ ~fmHasCleanup

C7_Witness ==
  /\ mapInstance /\ ~showAirQuality /\ ~showFireData
  /\ clusterRef # << >> /\ Len(fireData) > 0
  /\ step.kind = "move" /\ lastPrims # << >>

\* C9: before the map's load event no overlay is mounted and nothing of an
\* overlay is on the map (no marker, no handler, no source, no layer, no
\* deferred listener), and the symbol-layer overlay adds or updates its
\* source and adds its layer only in a step after which the style is loaded.
C9_NothingBeforeLoad ==
  ~mapLoaded =>
    /\ ~mapInstance
    /\ mapMarkers = EmptyBag /\ markersRef = << >> /\ handlers = 0 /\ timers = {}
    /\ fireMapMarkers = EmptyBag /\ fmMarkersRef = << >> /\ fmZoomHandlers = 0
    /\ symSource = << >> /\ symLayer = "none" /\ symClick = 0 /\ symOnce = 0

C9_MutationsAfterLoad ==
  /\ []C9_NothingBeforeLoad
  /\ [][(symSource' # symSource \/ (symLayer = "none" /\ symLayer' # "none"))
          => (mapLoaded' /\ styleLoaded /\ styleLoaded')]_vars

C9_Witness ==
  /\ mapLoaded /\ symLayer # "none" /\ symSource # << >>
  /\ markersRef # << >> /\ fmMarkersRef # << >>

\* C10: once the layer effect has deferred ensureLayers (fire data present,
\* style not loaded), the fire layer eventually exists on the map.
C10_DeferredEventuallyAdded == (symOnce > 0) ~> (symLayer # "none")

\* The state the layer is stuck in: data fetched, the style loaded again,
\* the listener still waiting for a load event that has already fired.
C10_Stuck ==
  /\ mapLoaded /\ styleLoaded /\ symFetch = "done" /\ Len(symData) > 0
  /\ symOnce > 0 /\ symLayer = "none"

\* ======================================================================
\* Properties of fetching
\* ======================================================================
\* C11: while the stations fetch is outstanding, or no index has been
\* built, map events reach no handler of the overlay: no marker, no handler,
\* no timer, no index query and no recompute; markers exist only once the
\* fetch has succeeded and the index of the fetched stations has been built.
C11_NothingBeforeIndex ==
  /\ (aqFetch # "done" \/ clusterRef = << >>) =>
       /\ markersRef = << >> /\ mapMarkers = EmptyBag
       /\ handlers = 0 /\ timers = {} /\ ~hasCleanup
       /\ lastPrims = << >> /\ step.rec = 0
  /\ markersRef # << >> =>
       /\ aqFetch = "done" /\ Len(stations) > 0 /\ error = "null"
       /\ clusterRef = <<Features(stations)>>

C11_Witness ==
  /\ mapInstance /\ aqFetch = "pending" /\ showAirQuality
  /\ step.kind \in {"move", "end"} /\ markersRef = << >>

\* The messages of what the services reject with.
UpstreamTexts == {r.message : r \in Rejections}

\* C12: an overlay whose fetch has failed has loading false, the rejection's
\* message as its error, no data, no index, no marker and no index query;
\* the step in which one overlay's fetch fails performs no recompute and
\* leaves the other overlay's data, loading, error and markers unchanged.
C12_FailedOverlay ==
  /\ error # "null" =>
       /\ ~loading /\ error \in UpstreamTexts /\ aqFetch = "done"
       /\ stations = << >> /\ clusterRef = << >>
       /\ markersRef = << >> /\ mapMarkers = EmptyBag /\ lastPrims = << >>
  /\ fmError # "null" =>
       /\ ~fmLoading /\ fmError \in UpstreamTexts /\ fmFetch = "done"
       /\ fireData = << >>
       /\ fmMarkersRef = << >> /\ fireMapMarkers = EmptyBag

C13_UnresolvableDropped ==
  (leafFault # "none" /\ step.rec > 0) =>
    /\ ~renderError
    /\ LET single == SelectSeq(lastPrims, LAMBDA p : ~p.cluster)
       IN markersRef = [i \in 1..Len(single) |-> MarkerFor(clusterRef[1], single[i])]

\* The faulty recompute: an exception has escaped and primitives of the
\* query are left without a marker.
C13_Aborted ==
  /\ leafFault = "throws" /\ renderError /\ step.rec > 0
  /\ Len(markersRef) < Len(lastPrims)
  /\ \E i \in 1..Len(lastPrims) : ~lastPrims[i].cluster

\* C14: once the index is built, every fetched station whose coordinates
\* are out of range or not a number has been logged and is not in the index.
C14_Invalid(station) ==
  \/ station.lng = NaN \/ station.lat = NaN \/ InvalidCoordinates(station)

C14_InvalidLoggedAndExcluded ==
  clusterRef # << >> =>
    \A i \in 1..Len(stations) :
      C14_Invalid(stations[i]) =>
        /\ \E j \in 1..Len(invalidLogged) : invalidLogged[j] = stations[i]
        /\ \A k \in 1..Len(clusterRef[1]) : clusterRef[1][k].station # stations[i]

\* The index was built from stations of which some are invalid: those are
\* not in the index, and nothing was logged.
C14_ExcludedUnlogged ==
  /\ clusterRef # << >> /\ Len(clusterRef[1]) > 0 /\ invalidLogged = << >>
  /\ \E i \in 1..Len(stations) :
       /\ stations[i].lng = 200000
       /\ \A k \in 1..Len(clusterRef[1]) : clusterRef[1][k].station # stations[i]
  /\ \E i \in 1..Len(stations) :
       /\ stations[i].lat = NaN
       /\ \A k \in 1..Len(clusterRef[1]) : clusterRef[1][k].station # stations[i]

\* The integer zooms an index can be asked for.
IntegerZooms == 0..16

\* The stations that are the leaves of the primitives of the whole world at
\* an integer zoom, as a bag.
WorldLeaves(z) ==
  LET index == clusterRef[1]
      prims == GetClusters(index, WorldBBox, z)
      RECURSIVE Cat(_)
      Cat(i) == IF i > Len(prims) THEN << >>
                ELSE GetLeaves(index, prims[i]) \o Cat(i + 1)
      leaves == Cat(1)
  IN BagOfSeq([i \in 1..Len(leaves) |-> leaves[i].station])

C15_InUSBox(station) ==
  /\ station.lng >= -180000 /\ station.lng <= -65000
  /\ station.lat >= 18000 /\ station.lat <= 72000

C15_Valid(station) ==
  /\ station.lng >= -180000 /\ station.lng <= 180000
  /\ station.lat >= -90000 /\ station.lat <= 90000

\* C15 (as the code has it): at every integer zoom the leaves of the
\* primitives of the whole world are exactly the fetched stations inside the
\* US box (longitude -180..-65, latitude 18..72), each once.
C15_LeavesAreUSStations ==
  clusterRef # << >> =>
    \A z \in IntegerZooms :
      WorldLeaves(z) = BagOfSeq(SelectSeq(stations, C15_InUSBox))

\* C15 as stated: the leaves are the fetched stations with valid coordinates.
C15_LeavesAreValidStations ==
  clusterRef # << >> =>
    \A z \in IntegerZooms :
      WorldLeaves(z) = BagOfSeq(SelectSeq(stations, C15_Valid))

\* An index over three stations, clustered at some zooms and single at others.
C15_Witness ==
  /\ clusterRef # << >> /\ Len(clusterRef[1]) = 3
  /\ \E z \in IntegerZooms :
       \E i \in 1..Len(GetClusters(clusterRef[1], WorldBBox, z)) :
         GetClusters(clusterRef[1], WorldBBox, z)[i].cluster
  /\ \E z \in IntegerZooms :
       Len(GetClusters(clusterRef[1], WorldBBox, z)) = 3

\* Two points are within the cluster radius (50 px) at an integer zoom.
C16_Within(f, g, z) ==
  (f.lng - g.lng) * (f.lng - g.lng) + (f.lat - g.lat) * (f.lat - g.lat)
    <= ((360000 * 50) \div (512 * Pow2(z))) * ((360000 * 50) \div (512 * Pow2(z)))

\* The integer zoom the markers on the map were queried at.
C16_QueriedZoom == QueryZoom(lastZoom[1])

\* No two single-station markers on the map are within the radius of each
\* other at the queried zoom, if that zoom is in zs.
C16_NearPairsCluster(zs) ==
  (lastZoom # << >> /\ C16_QueriedZoom \in zs) =>
    \A i, j \in 1..Len(markersRef) :
      (i # j /\ markersRef[i].kind = "station" /\ markersRef[j].kind = "station")
        => ~C16_Within(markersRef[i], markersRef[j], C16_QueriedZoom)

C17_Rank(station) ==
  CHOOSE v \in {station.values[k] : k \in 1..Len(station.values)} :
    \A k \in 1..Len(station.values) : v >= station.values[k]

C17_Ranks(m) == [i \in m.ids |-> C17_Rank(clusterRef[1][i].station)]

\* C17: every cluster marker on the map shows as average the mean of its
\* leaves' ranking values rounded to the nearest integer (halves upwards)
\* and as maximum the largest of them; ranking values 10, 20, 30 give an
\* average of 20 and a maximum of 30.
C17_ClusterStatistics ==
  \A i \in 1..Len(markersRef) :
    markersRef[i].kind = "cluster" =>
      LET m == markersRef[i]
          n == Cardinality(m.ids)
          sum == SetSum(m.ids, C17_Ranks(m))
      IN /\ 2 * n * m.avgAQI <= 2 * sum + n
         /\ 2 * sum + n < 2 * n * m.avgAQI + 2 * n
         /\ \E f \in m.ids : m.maxAQI = C17_Ranks(m)[f]
         /\ \A f \in m.ids : m.maxAQI >= C17_Ranks(m)[f]
         /\ {C17_Ranks(m)[f] : f \in m.ids} = {10, 20, 30} /\ n = 3
              => m.avgAQI = 20 /\ m.maxAQI = 30

\* A cluster with ranking values 10, 20, 30 is on the map.
C17_Witness ==
  \E i \in 1..Len(markersRef) :
    /\ markersRef[i].kind = "cluster" /\ Cardinality(markersRef[i].ids) = 3
    /\ {C17_Ranks(markersRef[i])[f] : f \in markersRef[i].ids} = {10, 20, 30}
    /\ markersRef[i].avgAQI = 20 /\ markersRef[i].maxAQI = 30

\* C18: the record handed to the click callback of a single point is equal,
\* field for field, to a record the overlay fetched.
C18_OriginalRecord ==
  clicked # << >> =>
    LET fetched == CASE clicked[1].overlay = "stations" -> stations
                     [] clicked[1].overlay = "fire markers" -> fireData
                     [] clicked[1].overlay = "fire symbols" -> symData
    IN \E i \in 1..Len(fetched) : fetched[i] = clicked[1].record

\* A point of the symbol layer was clicked: the callback's record has the
\* position of a fetched record, and is not equal to it.
C18_Reconstructed ==
  /\ clicked # << >> /\ clicked[1].overlay = "fire symbols"
  /\ \E i \in 1..Len(symData) :
       /\ symData[i].latitude = clicked[1].record.latitude
       /\ symData[i].longitude = clicked[1].record.longitude
       /\ symData[i] # clicked[1].record
       /\ symData[i].scan # clicked[1].record.scan
       /\ symData[i].version # clicked[1].record.version

\* C19: a click on a cluster marker requests a fly-to centred on the
\* cluster's coordinates whose zoom is the smaller of the current zoom plus 2
\* and 14.
C19_ClusterFlyTo ==
  [][\A i \in 1..3 :
       (ClickMarker(i) /\ markersRef[i].kind = "cluster") =>
         /\ Len(flyTo') = 1
         /\ flyTo'[1].center = <<markersRef[i].lng, markersRef[i].lat>>
         /\ flyTo'[1].zoom = (IF viewport.zoom + 200 <= 1400
                              THEN viewport.zoom + 200 ELSE 1400)
         /\ flyTo'[1].zoom <= 100 * ClusterMaxZoom]_vars

\* A cluster marker was clicked at zoom 13: the fly-to asks for zoom 14.
C19_Witness ==
  /\ step.kind = "click" /\ flyTo # << >>
  /\ viewport.zoom = 1300 /\ flyTo[1].zoom = 1400
  /\ \E i \in 1..Len(markersRef) :
       /\ markersRef[i].kind = "cluster"
       /\ flyTo[1].center = <<markersRef[i].lng, markersRef[i].lat>>

\* C20: a step whose recompute queried the index and got no primitive ends
\* with no marker tracked, no marker of the overlay on the map and no
\* exception.
C20_EmptyQuery ==
  [][(step'.rec > 0 /\ lastPrims' = << >>) =>
       /\ markersRef' = << >>
       /\ mapMarkers' = EmptyBag
       /\ ~renderError']_vars

\* The index holds a station, the last recompute found none in the
\* viewport, and no marker is left.
C20_Witness ==
  /\ clusterRef # << >> /\ Len(clusterRef[1]) > 0
  /\ step.rec > 0 /\ lastPrims = << >>
  /\ markersRef = << >> /\ mapMarkers = EmptyBag /\ ~renderError

\* ======================================================================
\* Properties of the index's life and of the effects' resources
\* ======================================================================
\* The features the index effect derives from a dataset: one per station
\* inside the US box, in the dataset's order.
C21_IsIndexOf(index, sts) ==
  LET kept == SelectSeq(sts, C15_InUSBox)
  IN /\ Len(index) = Len(kept)
     /\ \A i \in 1..Len(kept) :
          /\ index[i].station = kept[i]
          /\ index[i].lng = kept[i].lng /\ index[i].lat = kept[i].lat
          /\ index[i].maxAQI = C17_Rank(kept[i])

\* C21: a step that changes the stations dataset installs an index loaded
\* from exactly the features of the new dataset; an installed index is never
\* changed by another step; and every recompute reads the installed index.
C21_IndexRebuilt ==
  /\ [][stations' # stations =>
          (clusterRef' # << >> /\ C21_IsIndexOf(clusterRef'[1], stations'))]_vars
  /\ [][(stations' = stations /\ clusterRef # << >>) => clusterRef' = clusterRef]_vars
  /\ [][step'.rec > 0 =>
          lastPrims' = GetClusters(clusterRef'[1], BBox(viewport'),
                                   QueryZoom(viewport'.zoom))]_vars

\* The dataset with an invalid and a foreign station has been fetched, its
\* index holds the one US station, and a recompute has read it.
C21_Witness ==
  /\ stations = StationsMixed /\ clusterRef # << >>
  /\ Len(clusterRef[1]) = 1 /\ clusterRef[1][1].station = stations[1]
  /\ step.rec > 0 /\ Len(markersRef) = 1

\* C24: a call of updateClusters (from a move or zoom event or from the
\* settle timer) that does not recompute leaves the markers, the committed
\* zoom and the committed bounds as they were; while the update effect is
\* live the committed zoom and bounds change only in a step that recomputes,
\* and then to the viewport of that step.
C24_GateFrame ==
  [][/\ (step'.kind \in {"move", "timer"} /\ step'.rec = 0) =>
          /\ markersRef' = markersRef /\ mapMarkers' = mapMarkers
          /\ lastZoom' = lastZoom /\ lastBounds' = lastBounds
     /\ (hasCleanup' /\ (lastZoom' # lastZoom \/ lastBounds' # lastBounds)) =>
          /\ step'.rec > 0
          /\ lastZoom' = <<viewport'.zoom>> /\ lastBounds' = BBox(viewport')
    ]_vars

\* A settle timer has called updateClusters at a viewport within the
\* thresholds of the committed one: nothing was recomputed or committed.
C24_Witness ==
  /\ step.kind = "timer" /\ step.rec = 0 /\ hasCleanup
  /\ lastBounds # << >> /\ lastBounds # BBox(viewport)
  /\ Len(markersRef) > 0

\* C25: right after a move or zoom event has been handled no settle timer
\* is pending, and a step that creates a settle timer is the handling of a
\* moveend or zoomend event.
C25_MoveCancelsTimer ==
  /\ [](step.kind = "move" => timers = {})
  /\ [][(timers' \ timers # {}) => step'.kind = "end"]_vars
  /\ [][step'.kind = "move" => timers' = {}]_vars

\* A move was handled by the live effect after a settle timer had been
\* scheduled (updateTimeout still names it): none is pending.
C25_Witness ==
  /\ step.kind = "move" /\ hasCleanup /\ handlers = 1
  /\ updateTimeout # 0 /\ timers = {}

\* C26: whatever renders have re-run the update effect, the overlay has at
\* most one handler set registered (one handler per map event) and at most
\* one timer pending, and the overlay's markers on the map are exactly the
\* markers it tracks now.
C26_NoLeftovers ==
  /\ handlers <= 1
  /\ handlers = (IF hasCleanup THEN 1 ELSE 0)
  /\ Cardinality(timers) <= 1
  /\ mapMarkers = BagOfSeq(markersRef)

\* The layer was switched on again: the update effect has re-run, one
\* handler set is registered and the markers are those of its initial update.
C26_Witness ==
  /\ step.kind = "toggle" /\ showAirQuality /\ step.rec = 1
  /\ handlers = 1 /\ timers = {}
  /\ Len(markersRef) > 0 /\ mapMarkers = BagOfSeq(markersRef)

C28_NeverZoomsOut ==
  [][\A i \in 1..3 :
       (ClickMarker(i) /\ markersRef[i].kind = "cluster") =>
         flyTo'[1].zoom >= viewport.zoom]_vars

\* A cluster marker was clicked at zoom 14.03 and the fly-to asks for 14.
C28_ZoomedOut ==
  /\ step.kind = "click" /\ flyTo # << >>
  /\ viewport.zoom = 1403 /\ flyTo[1].zoom = 1400
  /\ \E i \in 1..Len(markersRef) :
       /\ markersRef[i].kind = "cluster"
       /\ flyTo[1].center = <<markersRef[i].lng, markersRef[i].lat>>

\* ======================================================================
\* Properties of the services
\* ======================================================================
\* The station a record of the last response ended up in.
C22_StationOf(i) == KeySlot(StationMap(rawData, Len(rawData)), Key(rawData[i]))

\* C22: two records of a response are in the same station exactly if they
\* have the same city and the same state, and totalStations is the number
\* of distinct (city, state) pairs of the response.
C22_GroupedByCityState ==
  apiResponse # << >> =>
    /\ \A i, j \in 1..Len(rawData) :
         (C22_StationOf(i) = C22_StationOf(j))
           <=> (rawData[i].city = rawData[j].city /\ rawData[i].state = rawData[j].state)
    /\ apiResponse[1].totalStations =
         Cardinality({<<rawData[i].city, rawData[i].state>> : i \in 1..Len(rawData)})

\* Two records with different cities and states were made one station.
C22_Merged ==
  /\ apiResponse # << >> /\ Len(rawData) = 2
  /\ rawData[1].city # rawData[2].city /\ rawData[1].state # rawData[2].state
  /\ apiResponse[1].totalStations = 1
  /\ Cardinality(apiResponse[1].stations[1].pollutants) = 2

\* C23: a service call whose response is not ok and carries an envelope
\* rejects with the error built from that envelope, whatever the service.
C23_UniformEnvelope ==
  (svcOutcome # << >> /\ ~svcOutcome[1].response.ok /\ svcOutcome[1].response.json) =>
    /\ svcOutcome[1].outcome.rejected
    /\ svcOutcome[1].outcome.message =
         <<"API Error: ", svcOutcome[1].response.body.error, " - ",
           svcOutcome[1].response.body.message>>

\* The WSTI service was answered 503 with an envelope and rejected with the
\* status only.
C23_StatusOnly ==
  /\ svcOutcome # << >> /\ svcOutcome[1].service = "WSTI"
  /\ svcOutcome[1].response.status = 503 /\ svcOutcome[1].response.json
  /\ svcOutcome[1].outcome = Rejected(<<"HTTP error! status: ", 503>>)

\* ======================================================================
\* Properties of the page's asynchronous handlers
\* ======================================================================
C29_AllDone ==
  /\ clickHandlers # << >>
  /\ \A i \in 1..Len(clickHandlers) : clickHandlers[i].at = 0

\* C29: at most one weather popup is open at any time, and once every click
\* handler has completed, the location last reported through
\* onLocationSelect is that of the most recent click, whose popup is the
\* one on screen if any is.
C29_LatestClickReported ==
  /\ Cardinality(popups) <= 1
  /\ C29_AllDone =>
       /\ selectedLocation # << >>
       /\ selectedLocation[1].location =
            clickHandlers[Len(clickHandlers)].location
       /\ popups \subseteq {Len(clickHandlers)}

\* Two clicks at different places have both completed, the popup of the
\* second is on screen and the location last reported is that of the first.
C29_StaleReported ==
  /\ C29_AllDone /\ Len(clickHandlers) = 2
  /\ clickHandlers[1].location # clickHandlers[2].location
  /\ popups = {2} /\ popupRef = 2
  /\ selectedLocation # << >> /\ selectedLocation[1].id = 2
  /\ selectedLocation[1].location = clickHandlers[1].location

\* The effect of panel p has run for the location that is selected.
C30_Current(p) ==
  /\ selectedLocation # << >>
  /\ panels[p].seen = selectedLocation[1].id

\* C30: in each panel, when loading is false the data or the error on
\* display comes from a fetch for the selected location, and loading is
\* true while a fetch for the selected location is in flight.
C30_ShowsSelectedLocation ==
  \A p \in Panels :
    C30_Current(p) =>
      LET here == selectedLocation[1].location
          panel == panels[p]
      IN /\ ~panel.loading =>
              /\ panel.data # << >> => panel.data[1].location = here
              /\ panel.error # << >> => panel.error[1].location = here
         /\ (\E f \in panelFetches : f.panel = p /\ f.location = here) =>
              panel.loading

\* A panel shows, with loading false, the data of another location than the
\* selected one while its fetch for the selected location is in flight.
C30_StaleShown ==
  \E p \in Panels :
    /\ C30_Current(p)
    /\ ~panels[p].loading
    /\ panels[p].data # << >>
    /\ panels[p].data[1].location # selectedLocation[1].location
    /\ \E f \in panelFetches :
         f.panel = p /\ f.location = selectedLocation[1].location

\* ---------------------------------------------------------------- fairness
\* Timers expire, fetches complete and the map finishes loading.
SpecLive ==
  /\ Init /\ [][Next]_vars
  /\ WF_vars(\E id \in timers : TimerFire(id))
  /\ WF_vars(MapLoad)
  /\ WF_vars(\E data \in Datasets : FetchStationsOk(data))


\* The symbol-layer fire overlay on a map whose style may be busy.
NextSymbol ==
  \/ MapLoad
  \/ StyleBusy
  \/ StyleIdle
  \/ ToggleFireData
  \/ ParentRender
  \/ \E data \in FireDatasets : SymFetchOk(data)
  \/ SymFetchFail

\* The map finishes loading, a busy style becomes idle and the fetch
\* completes; nobody is obliged to toggle a layer or to render again.
SpecSymbolLive ==
  /\ Init /\ [][NextSymbol]_vars
  /\ WF_vars(MapLoad)
  /\ WF_vars(StyleIdle)
  /\ WF_vars(\E data \in FireDatasets : SymFetchOk(data))


\* The cluster overlay over several fetched datasets, with marker clicks.
IndexDatasets == {StationsA, StationsTriple, StationsMixed, StationsEdge}

NextIndex ==
  \/ MapLoad
  \/ \E data \in IndexDatasets : FetchStationsResolved(data)
  \/ \E v \in AllViewports : MapMove(v)
  \/ \E i \in 1..3 : ClickMarker(i)

SpecIndex == Init /\ [][NextIndex]_vars

\* The three overlays with their data fetched, and clicks on their points.
NextClicks ==
  \/ MapLoad
  \/ \E data \in {StationsA, StationsEdge} : FetchStationsResolved(data)
  \/ \E data \in FireDatasets : FetchFireOk(data)
  \/ \E data \in FireDatasets : SymFetchOk(data)
  \/ \E i \in 1..3 : ClickMarker(i)
  \/ \E i \in 1..2 : ClickFireMarker(i)
  \/ \E i \in 1..2 : ClickFirePoint(i)

SpecClicks == Init /\ [][NextClicks]_vars

\* The cluster overlay on an index that may become inconsistent; an
\* exception that escapes updateClusters ends the run.
NextFaulty ==
  /\ ~renderError
  /\ \/ MapLoad
     \/ \E data \in {StationsA, StationsTriple} : FetchStationsResolved(data)
     \/ \E v \in Viewports : MapMove(v)
     \/ ToggleAirQuality
     \/ \E kind \in {"throws", "empty"} : IndexInconsistency(kind)

SpecFaulty == Init /\ [][NextFaulty]_vars


\* The services called with the responses of the backend.
NextService ==
  \/ MapLoad
  \/ \E raw \in RawInputs : GetAllStationsOk(raw)

SpecService == Init /\ [][NextService]_vars


\* The services called with the responses fetch can resolve with.
NextServiceErrors ==
  \/ \E service \in Services, response \in Responses : ServiceCall(service, response)

SpecServiceErrors == Init /\ [][NextServiceErrors]_vars


\* The two marker overlays until the page is left.
NextUnmount ==
  /\ ~unmounted
  /\ \/ NextMarkers
     \/ Unmount

SpecUnmount == Init /\ [][NextUnmount]_vars

\* The map clicked for weather while the first and the last weather layer
\* are toggled; the camera stays where it is.
NextWeather ==
  \/ MapLoad
  \/ \E layer \in {"precipitation", "fireRisk"} : ToggleWeather(layer)
  \/ \E location \in Locations : MapClick(location)
  \/ \E i \in 1..MaxClicks : WeatherFetchSettles(i)
  \/ \E n \in popups : PopupClose(n)

InitWeather == Init /\ viewport = Viewport(1300, -98000)

SpecWeather == InitWeather /\ [][NextWeather]_vars

\* The panels share nothing but the selectedLocation prop: a run follows
\* one of them.
Followed(p) ==
  /\ \A q \in Panels \ {p} : panels[q] = PanelInitial
  /\ \A f \in panelFetches : f.panel = p

\* Locations selected on the page and the fetches of a panel.
NextPanels ==
  \/ \E location \in Locations : SelectLocation(location)
  \/ \E p \in Panels : Followed(p) /\ PanelEffect(p)
  \/ \E p \in Panels : Followed(p) /\ HandleRefresh(p)
  \/ \E f \in panelFetches, ok \in BOOLEAN : PanelFetchSettles(f, ok)

SpecPanels == Init /\ [][NextPanels]_vars

====
